---- MODULE Spec2Model ----
(***************************************************************************)
(* Model of src/las_analysis.py: PetrophysicalAnalyzer and main().         *)
(*                                                                         *)
(* Numbers.  A float is a record [k, v]: k = "num" with v the value in the *)
(* fixed-point unit of the quantity, k = "nan" (pandas' missing value) or  *)
(* k = "inf" with v the sign.  Units: gamma ray 1 GAPI, NPRL 1 percent,    *)
(* DEN and PDPE 1/100, RTAT 1/10 ohm-m, depth 1/4 ft, porosity 1/PhiScale, *)
(* shale volume 1/VScale, saturation 1/SatScale.  Fixed-point results are  *)
(* rounded down, so a comparison of a result with a threshold that is a    *)
(* multiple of the unit gives what the comparison of the reals gives.      *)
(***************************************************************************)
EXTENDS Integers, Sequences, FiniteSets, TLC

VARIABLES
    lasio,      \* the lasio import succeeded (line 18-22)
    file,       \* what is at las_file_path
    pc,         \* position of main()
    df,         \* self.df
    load_ok,    \* what load_las_file returned: "True", "False", or "pending"
    calls,      \* the analysis steps main has called, in order
    quality,    \* what data_quality_assessment computed and printed
    lithology_results,      \* main's lithology_results
    petrophysical_results,  \* main's petrophysical_results
    all_results,            \* main's all_results
    kmeans,     \* what KMeans gave on the table it was last fitted on
    ml_runs     \* what each call of _ml_lithology_clustering returned, in order

vars == <<lasio, file, pc, df, load_ok, calls, quality,
          lithology_results, petrophysical_results, all_results, kmeans, ml_runs>>

----------------------------------------------------------------------------
(* Bounds of the model *)

MaxLines == 4       \* lines of a file read by the manual parser
MaxSamples == 3     \* rows of a gamma-ray table
MaxQARows == 5      \* rows of a table of the quality-assessment family
MaxClusterRows == 45    \* rows of a table of the clustering family
MaxCalls == 3       \* calls of the analysis methods on one loaded table

----------------------------------------------------------------------------
(* Floats *)

Num(n) == [k |-> "num", v |-> n]
NaN == [k |-> "nan", v |-> 0]
Inf == [k |-> "inf", v |-> 1]
NegInf == [k |-> "inf", v |-> -1]

IsNum(x) == x.k = "num"
IsNaN(x) == x.k = "nan"

None == [tag |-> "None"]

Range(s) == {s[i] : i \in 1..Len(s)}

SeqsUpTo(S, n) == UNION {[1..m -> S] : m \in 0..n}

\* x < y, x > y, x >= y, x <= y of two floats: False when either is NaN
FLt(x, y) ==
    /\ ~IsNaN(x) /\ ~IsNaN(y)
    /\ IF x.k = "inf" THEN x.v < 0 /\ ~(y.k = "inf" /\ y.v < 0)
       ELSE IF y.k = "inf" THEN y.v > 0
       ELSE x.v < y.v
FGt(x, y) == FLt(y, x)
FGe(x, y) == ~IsNaN(x) /\ ~IsNaN(y) /\ ~FLt(x, y)
FLe(x, y) == FGe(y, x)

\* Series.clip(lo, hi) on one value: NaN stays NaN
Clip(x, lo, hi) ==
    IF IsNaN(x) THEN NaN
    ELSE IF FLt(x, Num(lo)) THEN Num(lo)
    ELSE IF FGt(x, Num(hi)) THEN Num(hi)
    ELSE x

----------------------------------------------------------------------------
(* Tables: self.df, a pandas DataFrame indexed by depth *)

Mnemonics == {"GGCE", "GR", "NPRL", "DEN", "PDPE", "RTAT", "SPCG"}

\* a fixed order of the mnemonics, the order of the columns of a table
ColumnOrder == <<"GGCE", "GR", "NPRL", "DEN", "PDPE", "RTAT", "SPCG">>

RECURSIVE SelectSeq2(_, _)
SelectSeq2(s, S) ==
    IF s = <<>> THEN <<>>
    ELSE IF Head(s) \in S THEN <<Head(s)>> \o SelectSeq2(Tail(s), S)
    ELSE SelectSeq2(Tail(s), S)

\* the table with columns cols (a set) and the rows data[c], sampled every 0.5 ft
Table(cols, n, data) ==
    [index |-> [i \in 1..n |-> Num(2 * i)],
     columns |-> SelectSeq2(ColumnOrder, cols),
     data |-> [c \in cols |-> data[c]]]

Columns(t) == Range(t.columns)
NRows(t) == Len(t.index)

\* Series.dropna(): the positions of the non-null values
Valid(s) == {i \in 1..Len(s) : ~IsNaN(s[i])}

\* Series.count()
Count(s) == Cardinality(Valid(s))

----------------------------------------------------------------------------
(* The file at las_file_path, as _manual_las_parse reads it.  A line is    *)
(* [kind, names, values]: "ascii" starts with ~A; "dept" starts with DEPT  *)
(* and splits into names; "data" splits into the tokens values; "blank" is *)
(* empty and "comment" starts with #.  A token is "num" (float() gives v), *)
(* "null" (the text -999.250000), "null_short" (another spelling of        *)
(* -999.25, which float() reads as a number) or "text" (float() raises     *)
(* ValueError).                                                            *)

NoFile == [kind |-> "missing", lines |-> <<>>]    \* open() raises
LasFile == [kind |-> "las", lines |-> <<>>]       \* a file left to lasio to read
TextFile(lines) == [kind |-> "text", lines |-> lines]

Tok(t, v) == [t |-> t, v |-> v]
Line(kind, names, values) == [kind |-> kind, names |-> names, values |-> values]

MinusNull == -3997      \* -999.25 ft in the depth unit of 1/4 ft

AsciiLine == Line("ascii", <<>>, <<>>)
BlankLine == Line("blank", <<>>, <<>>)
CommentLine == Line("comment", <<>>, <<>>)
LineAlphabet ==
    { AsciiLine, BlankLine, CommentLine,
      Line("dept", <<"DEPT", "GGCE">>, <<>>),
      Line("dept", <<"DEPT", "SPCG", "DEN">>, <<>>),
      Line("data", <<>>, <<Tok("num", 8), Tok("num", 60)>>),
      Line("data", <<>>, <<Tok("null_short", 0), Tok("null_short", 0)>>),
      Line("data", <<>>, <<Tok("null", 0), Tok("text", 0)>>),
      Line("data", <<>>, <<Tok("num", 10), Tok("num", 10), Tok("num", 220)>>) }

Files == {NoFile} \cup {TextFile(lines) : lines \in SeqsUpTo(LineAlphabet, MaxLines)}

\* lines 66-75: the index after the first ~A line (0: none), and the names
\* of the last DEPT line before it
RECURSIVE ScanHeader(_, _, _)
ScanHeader(lines, i, curves) ==
    IF i > Len(lines) THEN [data_start |-> 0, curves |-> curves]
    ELSE IF lines[i].kind = "ascii" THEN [data_start |-> i + 1, curves |-> curves]
    ELSE IF lines[i].kind = "dept" /\ Len(lines[i].names) > 0
         THEN ScanHeader(lines, i + 1, lines[i].names)
    ELSE ScanHeader(lines, i + 1, curves)

\* line 85: float(v) if v != '-999.250000' else np.nan
ParseFloat(tok) ==
    IF tok.t = "null" THEN NaN
    ELSE IF tok.t = "null_short" THEN Num(MinusNull)
    ELSE Num(tok.v)

\* lines 78-88: the rows of the data section
RECURSIVE ReadRows(_, _, _)
ReadRows(lines, i, ncurves) ==
    IF i > Len(lines) THEN <<>>
    ELSE LET l == lines[i]
             rest == ReadRows(lines, i + 1, ncurves)
         IN IF l.kind \in {"blank", "comment"} THEN rest
            ELSE IF l.kind # "data" THEN rest     \* float() of ~A or DEPT raises
            ELSE IF Len(l.values) # ncurves THEN rest
            ELSE IF \E j \in 1..Len(l.values) : l.values[j].t = "text" THEN rest
            ELSE <<[j \in 1..Len(l.values) |-> ParseFloat(l.values[j])]>> \o rest

\* line 93: df.replace(-999.25, np.nan), on the columns only
ReplaceNull(x) == IF x = Num(MinusNull) THEN NaN ELSE x

\* _manual_las_parse: the table it leaves in self.df, None when it leaves none
manual_las_parse(lines) ==
    LET h == ScanHeader(lines, 1, <<>>)
        rows == ReadRows(lines, h.data_start, Len(h.curves))
    IN IF h.data_start # 0 /\ h.curves # <<>> /\ rows # <<>>
       THEN [index |-> [r \in 1..Len(rows) |-> rows[r][1]],
             columns |-> Tail(h.curves),
             data |-> [c \in Range(Tail(h.curves)) |->
                         [r \in 1..Len(rows) |->
                            ReplaceNull(rows[r][CHOOSE j \in 2..Len(h.curves) : h.curves[j] = c])]]]
       ELSE None

----------------------------------------------------------------------------
(* Quantiles and the quality assessment *)

\* the non-null values of a series, ascending
SortedValues(s) ==
    LET idx == SelectSeq([i \in 1..Len(s) |-> i], LAMBDA i : ~IsNaN(s[i]))
    IN SortSeq([i \in 1..Len(idx) |-> s[idx[i]].v], LAMBDA a, b : a < b)

\* Series.quantile(num/den) times den: linear interpolation between the two
\* order statistics around position (n-1)*num/den; NaN when no value is left
Quantile(s, num, den) ==
    LET x == SortedValues(s)
        n == Len(x)
        j == ((n - 1) * num) \div den
        r == ((n - 1) * num) % den
    IN IF n = 0 THEN NaN
       ELSE IF r = 0 THEN Num(den * x[j + 1])
       ELSE Num(den * x[j + 1] + r * (x[j + 2] - x[j + 1]))

\* lines 122-123: the values outside [Q1 - 1.5 IQR, Q3 + 1.5 IQR]; Q1 and Q3
\* are in quarters of the unit, and every comparison with NaN is False
Outliers(s, Q1, Q3) ==
    IF IsNaN(Q1) \/ IsNaN(Q3) THEN 0
    ELSE LET IQR == Q3.v - Q1.v
         IN Cardinality({i \in Valid(s) :
                \/ 8 * s[i].v < 2 * Q1.v - 3 * IQR
                \/ 8 * s[i].v > 2 * Q3.v + 3 * IQR})

\* data_quality_assessment: what it computes per curve, and the curves whose
\* outlier count it prints (line 124-125)
data_quality_assessment(t) ==
    LET Q1(c) == Quantile(t.data[c], 1, 4)
        Q3(c) == Quantile(t.data[c], 3, 4)
    IN [total_points |-> NRows(t),
        valid_count |-> [c \in Columns(t) |-> Count(t.data[c])],
        quartiles |-> [c \in Columns(t) |-> <<Q1(c), Q3(c)>>],
        outliers |-> [c \in Columns(t) |-> Outliers(t.data[c], Q1(c), Q3(c))],
        printed |-> SelectSeq(t.columns,
                       LAMBDA c : Outliers(t.data[c], Q1(c), Q3(c)) > 0)]

----------------------------------------------------------------------------
(* Fixed-point powers *)

ExpScale == 10000       \* unit of an exponent and of a power: 1/10000
Ln2 == 6931             \* ln 2 in that unit

\* sum of the terms y^i / i! from term t (the i-th) on, up to the 9th
RECURSIVE ExpSeries(_, _, _)
ExpSeries(y, t, i) ==
    IF i > 9 \/ t = 0 THEN 0
    ELSE t + ExpSeries(y, (t * y) \div (ExpScale * i), i + 1)

RECURSIVE TwoTo(_)
TwoTo(n) == IF n = 0 THEN 1 ELSE 2 * TwoTo(n - 1)

\* 2 ** (e / ExpScale) for e >= 0, in the unit 1/ExpScale
Exp2(e) ==
    TwoTo(e \div ExpScale) * ExpSeries(((e % ExpScale) * Ln2) \div ExpScale, ExpScale, 1)

----------------------------------------------------------------------------
(* Method 1: gamma ray (Larionov) *)

VScale == 100           \* unit of a shale volume: 1/100

NoLabel == "NaN"        \* an entry of the object series never assigned

\* lines 168-169: (gr - gr_clean) / (gr_shale - gr_clean), clipped to [0, 1],
\* as the fraction <<numerator, denominator>>; clean and shale are in 1/20 GAPI.
\* 0/0 is NaN, x/0 is +-inf, which clip takes to 1 or 0.
Normalize(gr, clean, shale) ==
    LET num == 20 * gr - clean
        den == shale - clean
    IN IF den = 0 THEN (IF num = 0 THEN NaN ELSE IF num > 0 THEN Num(<<1, 1>>) ELSE Num(<<0, 1>>))
       ELSE IF num <= 0 THEN Num(<<0, 1>>)
       ELSE IF num >= den THEN Num(<<1, 1>>)
       ELSE Num(<<num, den>>)

\* line 172: 0.083 * (2**(3.7 * G) - 1)
Tertiary(G) ==
    IF IsNaN(G) THEN NaN
    ELSE Num((83 * (Exp2((37 * G.v[1] * (ExpScale \div 10)) \div G.v[2]) - ExpScale))
                \div ((1000 * ExpScale) \div VScale))

\* line 175: 0.33 * (2**(2 * G) - 1)
Older(G) ==
    IF IsNaN(G) THEN NaN
    ELSE Num((33 * (Exp2((2 * G.v[1] * ExpScale) \div G.v[2]) - ExpScale))
                \div ((100 * ExpScale) \div VScale))

\* mutant of GammaRayLabel: the older-rock volume is the one classified
GammaRayLabel_older(v_shale_tertiary, v_shale_older) ==
    IF FLt(v_shale_older, Num(15)) THEN "Clean Sandstone"
    ELSE IF FGe(v_shale_older, Num(15)) /\ FLt(v_shale_older, Num(50)) THEN "Shaly Sandstone"
    ELSE IF FGe(v_shale_older, Num(50)) THEN "Shale"
    ELSE NoLabel

\* lines 178-181: the label of one sample from the two shale volumes
GammaRayLabel(v_shale_tertiary, v_shale_older) ==
    IF FLt(v_shale_tertiary, Num(15)) THEN "Clean Sandstone"
    ELSE IF FGe(v_shale_tertiary, Num(15)) /\ FLt(v_shale_tertiary, Num(50)) THEN "Shaly Sandstone"
    ELSE IF FGe(v_shale_tertiary, Num(50)) THEN "Shale"
    ELSE NoLabel

\* what a method gives when it raises
KeyError == [tag |-> "KeyError"]
TypeError == [tag |-> "TypeError"]

gamma_ray_lithology(t, gr_col) ==
    IF gr_col \notin Columns(t) THEN KeyError
    ELSE
    LET gr == t.data[gr_col]
        gr_clean == Quantile(gr, 1, 20)
        gr_shale == Quantile(gr, 19, 20)
        G(i) == Normalize(gr[i].v, gr_clean.v, gr_shale.v)
    IN [tag |-> "result",
        lithology |-> [i \in Valid(gr) |-> GammaRayLabel(Tertiary(G(i)), Older(G(i)))],
        v_shale_tertiary |-> [i \in Valid(gr) |-> Tertiary(G(i))],
        v_shale_older |-> [i \in Valid(gr) |-> Older(G(i))],
        gr_clean |-> gr_clean,
        gr_shale |-> gr_shale]

----------------------------------------------------------------------------
(* Method 2: neutron-density cross-plot *)

\* lines 210-215: the matrix points in the dict's order; rhob in 1/100 g/cc
matrices ==
    << [name |-> "Sandstone", nphi |-> 0, rhob |-> 265],
       [name |-> "Limestone", nphi |-> 0, rhob |-> 271],
       [name |-> "Dolomite",  nphi |-> 0, rhob |-> 287],
       [name |-> "Anhydrite", nphi |-> 0, rhob |-> 296] >>

\* lines 223-224 squared, times 10^5: nphi is NPRL/100, the density term is
\* weighted by 0.1.  The square root is increasing, so the nearest matrix by
\* dist is the nearest by its square.
Dist2(nprl, rhob, m) ==
    10 * (nprl - 100 * m.nphi) * (nprl - 100 * m.nphi) + (rhob - m.rhob) * (rhob - m.rhob)

\* line 228: min(distances.keys(), key=...): the first key of least distance
Closest(nprl, rhob) ==
    LET best == CHOOSE j \in 1..Len(matrices) :
                    /\ \A k \in 1..Len(matrices) :
                           Dist2(nprl, rhob, matrices[j]) <= Dist2(nprl, rhob, matrices[k])
                    /\ \A k \in 1..(j - 1) :
                           Dist2(nprl, rhob, matrices[k]) > Dist2(nprl, rhob, matrices[j])
    IN matrices[best].name

\* mutant of NeutronDensityLabel: the gas test asks for either reading low
NeutronDensityLabel_either(nprl, rhob) ==
    LET closest == Closest(nprl, rhob)
    IN IF rhob < 230 \/ nprl < 15 THEN "Gas Sand" ELSE closest

\* lines 220-232, one sample: the closest matrix, then the gas override
\* (rhob < 2.3 and nphi < 0.15)
NeutronDensityLabel(nprl, rhob) ==
    LET closest == Closest(nprl, rhob)
    IN IF rhob < 230 /\ nprl < 15 THEN "Gas Sand" ELSE closest

neutron_density_lithology(t, nphi_col, rhob_col) ==
    IF nphi_col \notin Columns(t) \/ rhob_col \notin Columns(t) THEN KeyError
    ELSE
    LET valid_data == Valid(t.data[nphi_col]) \cap Valid(t.data[rhob_col])
    IN IF valid_data = {} THEN None
       ELSE [tag |-> "result",
             lithology |-> [i \in valid_data |->
                 NeutronDensityLabel(t.data[nphi_col][i].v, t.data[rhob_col][i].v)],
             nphi_data |-> [i \in valid_data |-> t.data[nphi_col][i]],
             rhob_data |-> [i \in valid_data |-> t.data[rhob_col][i]]]

----------------------------------------------------------------------------
(* Method 3: photoelectric factor *)

\* lines 250-257: the ranges in the dict's order, in 1/100
pe_ranges ==
    << [mineral |-> "Quartz/Sandstone",  pe_min |-> 180, pe_max |-> 190],
       [mineral |-> "Calcite/Limestone", pe_min |-> 500, pe_max |-> 520],
       [mineral |-> "Dolomite",          pe_min |-> 300, pe_max |-> 320],
       [mineral |-> "Clay/Shale",        pe_min |-> 280, pe_max |-> 330],
       [mineral |-> "Anhydrite",         pe_min |-> 500, pe_max |-> 510],
       [mineral |-> "Salt",              pe_min |-> 460, pe_max |-> 480] >>

\* mutant of AssignRanges: a label once assigned is kept (the first match wins)
RECURSIVE AssignRanges_first(_, _, _)
AssignRanges_first(pe, j, label) ==
    IF j > Len(pe_ranges) THEN label
    ELSE AssignRanges_first(pe, j + 1,
            IF label = NoLabel /\ pe >= pe_ranges[j].pe_min /\ pe <= pe_ranges[j].pe_max
            THEN pe_ranges[j].mineral ELSE label)

\* lines 261-263: the loop over the ranges from the j-th on; each range whose
\* mask holds assigns its mineral over the label so far
RECURSIVE AssignRanges(_, _, _)
AssignRanges(pe, j, label) ==
    IF j > Len(pe_ranges) THEN label
    ELSE AssignRanges(pe, j + 1,
            IF pe >= pe_ranges[j].pe_min /\ pe <= pe_ranges[j].pe_max
            THEN pe_ranges[j].mineral ELSE label)

\* lines 259-266, one sample
PhotoelectricLabel(pe) ==
    LET label == AssignRanges(pe, 1, NoLabel)
    IN IF label = NoLabel THEN "Unknown" ELSE label

photoelectric_lithology(t, pe_col) ==
    IF pe_col \notin Columns(t) THEN KeyError
    ELSE [tag |-> "result",
          lithology |-> [i \in Valid(t.data[pe_col]) |-> PhotoelectricLabel(t.data[pe_col][i].v)],
          pe_data |-> [i \in Valid(t.data[pe_col]) |-> t.data[pe_col][i]]]

----------------------------------------------------------------------------
(* Method 4: clustering, up to the choice of the candidate cluster counts *)

Min(a, b) == IF a < b THEN a ELSE b

\* lines 279-281
analysis_curves(t) ==
    SelectSeq(<<"GGCE", "NPRL", "DEN", "PDPE", "RTAT">>, LAMBDA c : c \in Columns(t))

\* line 287: the rows with every analysis curve non-null
ml_data(t) ==
    {i \in 1..NRows(t) : \A c \in Range(analysis_curves(t)) : ~IsNaN(t.data[c][i])}

\* line 297: range(2, min(8, len(ml_data)//5))
k_range(n) == {k \in 2..8 : k < Min(8, n \div 5)}

\* k_range[j], j counted from 0
k_range_at(n, j) ==
    CHOOSE k \in k_range(n) : Cardinality({x \in k_range(n) : x < k}) = j

\* numpy.diff
Diff(s) == [j \in 1..(Len(s) - 1) |-> s[j + 1] - s[j]]

\* numpy.argmax: the first position of the greatest value, counted from 0
ArgMax(s) ==
    (CHOOSE j \in 1..Len(s) :
        /\ \A i \in 1..Len(s) : s[i] <= s[j]
        /\ \A i \in 1..(j - 1) : s[i] < s[j]) - 1

\* line 305
optimal_k(n, inertias) ==
    IF Len(inertias) > 2 THEN k_range_at(n, ArgMax(Diff(Diff(inertias)))) ELSE 3

\* line 312
Facies(cluster) == <<"Facies_0", "Facies_1", "Facies_2", "Facies_3", "Facies_4",
                    "Facies_5", "Facies_6", "Facies_7">>[cluster + 1]

\* KMeans of scikit-learn is a library: what its fits give is an input, fit.
\* fit.inertias[j] is inertia_ of the fit with the j-th cluster count of the
\* loop at 299-302; fit.shift selects the labelling fit_predict gives at 309,
\* sample i in cluster (i + shift) mod optimal_k.
ml_lithology_clustering(t, fit) ==
    IF Len(analysis_curves(t)) < 2 THEN None
    ELSE IF Cardinality(ml_data(t)) < 10 THEN None
    ELSE
    LET n == Cardinality(ml_data(t))
        k == optimal_k(n, fit.inertias)
        clusters == [i \in ml_data(t) |-> (i + fit.shift) % k]
    IN [tag |-> "result",
        features |-> analysis_curves(t),
        samples |-> ml_data(t),
        k_range |-> k_range(n),
        inertias |-> fit.inertias,
        optimal_k |-> k,
        clusters |-> clusters,
        lithology |-> [i \in ml_data(t) |-> Facies(clusters[i])]]

----------------------------------------------------------------------------
(* lithology_identification *)

\* mutant of gr_col: the second membership test is dropped
gr_col_unchecked(t) ==
    IF "GGCE" \in Columns(t) THEN "GGCE" ELSE "GR"

\* lines 135-140
gr_col(t) ==
    IF "GGCE" \in Columns(t) THEN "GGCE"
    ELSE IF "GR" \in Columns(t) THEN "GR"
    ELSE "None"

\* the result dict, as a function on the keys set; KeyError when a method raises
lithology_identification(t, fit) ==
    LET keys ==
            {k \in {"gamma_ray"} : gr_col(t) # "None"}
            \cup {k \in {"neutron_density"} : "NPRL" \in Columns(t) /\ "DEN" \in Columns(t)}
            \cup {k \in {"photoelectric"} : "PDPE" \in Columns(t)}
            \cup {k \in {"ml_clustering"} : Len(t.columns) >= 3}
        value(k) ==
            CASE k = "gamma_ray" -> gamma_ray_lithology(t, gr_col(t))
              [] k = "neutron_density" -> neutron_density_lithology(t, "NPRL", "DEN")
              [] k = "photoelectric" -> photoelectric_lithology(t, "PDPE")
              [] k = "ml_clustering" -> ml_lithology_clustering(t, fit)
    IN IF \E k \in keys : value(k) = KeyError THEN KeyError
       ELSE [k \in keys |-> value(k)]

----------------------------------------------------------------------------
(* Porosity *)

PhiScale == 6600        \* unit of a porosity: 1/6600 = 1/(2 * 100 * 33)

\* lines 365-366: (rho_matrix - rhob) / (rho_matrix - rho_fluid) with
\* rho_matrix 2.65 and rho_fluid 1.0, clipped to [0, 0.5]
PhiDensity(rhob) ==
    IF IsNaN(rhob) THEN NaN
    ELSE Clip(Num(((265 - rhob.v) * PhiScale) \div (265 - 100)), 0, PhiScale \div 2)

\* lines 354, 369: NPRL / 100, clipped to [0, 0.5]
PhiNeutron(nprl) ==
    IF IsNaN(nprl) THEN NaN
    ELSE Clip(Num((nprl.v * PhiScale) \div 100), 0, PhiScale \div 2)

\* mutant of PhiCombined: the sum of the two porosities, not their mean
PhiCombined_sum(phi_density, phi_neutron) ==
    IF IsNaN(phi_density) \/ IsNaN(phi_neutron) THEN NaN
    ELSE Num(phi_density.v + phi_neutron.v)

\* line 372
PhiCombined(phi_density, phi_neutron) ==
    IF IsNaN(phi_density) \/ IsNaN(phi_neutron) THEN NaN
    ELSE Num((phi_density.v + phi_neutron.v) \div 2)

\* mutant of GasFlag: the margin of 0.04 is left out
GasFlag_no_margin(phi_density, phi_neutron) ==
    /\ ~IsNaN(phi_density) /\ ~IsNaN(phi_neutron)
    /\ phi_neutron.v < phi_density.v

\* line 375: phi_neutron < phi_density - 0.04
GasFlag(phi_density, phi_neutron) ==
    /\ ~IsNaN(phi_density) /\ ~IsNaN(phi_neutron)
    /\ phi_neutron.v < phi_density.v - (4 * PhiScale) \div 100

\* lines 376-377
PhiCorrected(phi_density, phi_neutron) ==
    IF GasFlag(phi_density, phi_neutron) THEN phi_density
    ELSE PhiCombined(phi_density, phi_neutron)

calculate_porosity(t) ==
    IF "NPRL" \notin Columns(t) \/ "DEN" \notin Columns(t) THEN None
    ELSE
    LET d(i) == PhiDensity(t.data["DEN"][i])
        n(i) == PhiNeutron(t.data["NPRL"][i])
        rows == 1..NRows(t)
    IN [tag |-> "result",
        phi_density |-> [i \in rows |-> d(i)],
        phi_neutron |-> [i \in rows |-> n(i)],
        phi_combined |-> [i \in rows |-> PhiCombined(d(i), n(i))],
        phi_corrected |-> [i \in rows |-> PhiCorrected(d(i), n(i))],
        gas_flag |-> [i \in rows |-> GasFlag(d(i), n(i))]]

----------------------------------------------------------------------------
(* Water saturation (Archie) *)

SatScale == 100         \* unit of a saturation: 1/100
FScale == 10            \* unit of a formation factor: 1/10

\* the integer square root, by bisection of lo..hi
RECURSIVE Bisect(_, _, _)
Bisect(x, lo, hi) ==
    IF lo = hi THEN lo
    ELSE LET mid == (lo + hi + 1) \div 2
         IN IF mid * mid <= x THEN Bisect(x, mid, hi) ELSE Bisect(x, lo, mid - 1)
ISqrt(x) == Bisect(x, 0, 46340)

\* line 408: F = a / (phi ** m) with a = 1.0 and m = 2.0; 1/0 is inf
FormationFactor(phi) ==
    IF IsNaN(phi) THEN NaN
    ELSE IF phi.v = 0 THEN Inf
    ELSE Num((PhiScale * PhiScale * FScale) \div (phi.v * phi.v))

\* line 411, the quotient (rw * F) / rt with rw = 0.1, times SatScale squared;
\* rt is in 1/10 ohm-m.  x/0 is +-inf for x # 0.
ArchieRatio(F, rt) ==
    IF IsNaN(F) \/ IsNaN(rt) THEN NaN
    ELSE IF F.k = "inf" THEN (IF rt.v < 0 THEN NegInf ELSE Inf)
    ELSE IF rt.v = 0 THEN Inf
    ELSE IF rt.v > 0 THEN Num((F.v * ((SatScale * SatScale) \div FScale)) \div rt.v)
    ELSE Num(0 - ((F.v * ((SatScale * SatScale) \div FScale)) \div (0 - rt.v)) - 1)

\* line 411, the power 1/n with n = 2.0.  The power of a negative number is
\* NaN; the power of -inf is NaN where numpy takes the square root and +inf
\* where it calls pow(): sqrt_path says which.
ArchiePower(x, sqrt_path) ==
    IF IsNaN(x) THEN NaN
    ELSE IF x.k = "inf" THEN (IF x.v > 0 \/ ~sqrt_path THEN Inf ELSE NaN)
    ELSE IF x.v < 0 THEN NaN
    ELSE Num(ISqrt(x.v))

\* mutant of WaterSaturation: the clip is left out
WaterSaturation_unclipped(phi, rt, sqrt_path) ==
    ArchiePower(ArchieRatio(FormationFactor(phi), rt), sqrt_path)

\* lines 411-412
WaterSaturation(phi, rt, sqrt_path) ==
    Clip(ArchiePower(ArchieRatio(FormationFactor(phi), rt), sqrt_path), 0, SatScale)

\* line 415: sh = 1 - sw
HydrocarbonSaturation(sw) ==
    IF IsNaN(sw) THEN NaN ELSE Num(SatScale - sw.v)

calculate_water_saturation(t, porosity_data, sqrt_path) ==
    IF "RTAT" \notin Columns(t) THEN None
    ELSE IF porosity_data = None THEN TypeError      \* line 399: None['phi_corrected']
    ELSE
    LET sw(i) == WaterSaturation(porosity_data.phi_corrected[i], t.data["RTAT"][i], sqrt_path)
        rows == 1..NRows(t)
    IN [tag |-> "result",
        sw |-> [i \in rows |-> sw(i)],
        sh |-> [i \in rows |-> HydrocarbonSaturation(sw(i))],
        formation_factor |-> [i \in rows |-> FormationFactor(porosity_data.phi_corrected[i])]]

----------------------------------------------------------------------------
(* Permeability *)

KScale == 1000          \* unit of a permeability: 1/1000 mD

\* the binary digits of log2(m / ExpScale) for 1 <= m / ExpScale < 2, from
\* the i-th on, in the unit 1/ExpScale
RECURSIVE Log2Digits(_, _)
Log2Digits(m, i) ==
    IF i > 13 THEN 0
    ELSE LET sq == (m * m) \div ExpScale
         IN IF sq >= 2 * ExpScale
            THEN ExpScale \div TwoTo(i) + Log2Digits(sq \div 2, i + 1)
            ELSE Log2Digits(sq, i + 1)

\* log2(a / b) for a >= b > 0, in the unit 1/ExpScale
RECURSIVE Log2Ratio(_, _)
Log2Ratio(a, b) ==
    IF a >= 2 * b THEN ExpScale + Log2Ratio(a, 2 * b)
    ELSE Log2Digits((a * ExpScale) \div b, 1)

\* phi ** (tenths / 10) for 0 <= phi <= 0.5, in the unit 1/ExpScale
PhiPower(phi, tenths) ==
    IF phi = 0 THEN 0
    ELSE LET e == (tenths * Log2Ratio(PhiScale, phi)) \div 10
         IN IF e \div ExpScale >= 14 THEN 0
            ELSE (ExpScale * ExpScale) \div Exp2(e)

\* (phi / (1 - phi)) ** 2, in the unit 1/ExpScale
RatioSquared(phi) ==
    LET q == (phi * ExpScale) \div (PhiScale - phi)
    IN (q * q) \div ExpScale

\* line 435: 5000 * phi**3 / (1 - phi)**2, as 5000 * phi * (phi / (1 - phi))**2
Kozeny(phi) ==
    IF IsNaN(phi) THEN NaN
    ELSE Num((phi.v * RatioSquared(phi.v) * 10) \div 132)    \* 5000 KScale / (PhiScale ExpScale) = 10/132

\* line 438: 0.136 * phi**4.4 / (1 - phi)**2, as 0.136 * phi**2.4 * (phi / (1 - phi))**2
Timur(phi) ==
    IF IsNaN(phi) THEN NaN
    ELSE Num((((136 * RatioSquared(phi.v)) \div 100) * PhiPower(phi.v, 24))
                \div ((ExpScale \div 100) * ExpScale))    \* 136 = 0.136 KScale

\* line 441
KAverage(k_kozeny, k_timur) ==
    IF IsNaN(k_kozeny) \/ IsNaN(k_timur) THEN NaN
    ELSE Num((k_kozeny.v + k_timur.v) \div 2)

estimate_permeability(t, porosity_data) ==
    IF porosity_data = None THEN TypeError           \* line 432: None['phi_corrected']
    ELSE
    LET phi == porosity_data.phi_corrected
        rows == 1..NRows(t)
    IN [tag |-> "result",
        k_kozeny |-> [i \in rows |-> Kozeny(phi[i])],
        k_timur |-> [i \in rows |-> Timur(phi[i])],
        k_average |-> [i \in rows |-> KAverage(Kozeny(phi[i]), Timur(phi[i]))]]

----------------------------------------------------------------------------
(* Net-to-gross *)

gr_cutoff == 75         \* line 460

\* a ratio of two thicknesses, kept as a fraction; thicknesses in 1/10 ft
Ratio(num, den) == [num |-> num, den |-> den]

\* mutant of NetFlag: a sample at the cutoff counts as net
NetFlag_at_cutoff(gr) == FLe(gr, Num(gr_cutoff))

\* mutant of NetFlag: a sample is net unless it is at or above the cutoff
NetFlag_null_is_net(gr) == ~FGe(gr, Num(gr_cutoff))

\* line 462: gr < gr_cutoff, False for a null sample
NetFlag(gr) == FLt(gr, Num(gr_cutoff))

calculate_net_to_gross(t) ==
    IF "GGCE" \notin Columns(t) THEN None
    ELSE
    LET gr == t.data["GGCE"]
        net_flag == [i \in 1..NRows(t) |-> NetFlag(gr[i])]
        total_thickness == Len(gr) * 5
        net_thickness == Cardinality({i \in 1..NRows(t) : net_flag[i]}) * 5
    IN [tag |-> "result",
        net_flag |-> net_flag,
        ntg_ratio |-> IF total_thickness > 0 THEN Ratio(net_thickness, total_thickness)
                      ELSE Ratio(0, 1),
        net_thickness |-> net_thickness,
        gross_thickness |-> total_thickness]

----------------------------------------------------------------------------
(* petrophysical_calculations *)

\* mutant of petrophysical_calculations: the permeability is under the guard
\* of the water saturation
petrophysical_calculations_one_guard(t, sqrt_path) ==
    LET r1 == IF "NPRL" \in Columns(t) /\ "DEN" \in Columns(t)
              THEN [k \in {"porosity"} |-> calculate_porosity(t)]
              ELSE <<>>
        r2 == IF "RTAT" \in Columns(t) /\ "porosity" \in DOMAIN r1
              THEN r1 @@ [k \in {"water_saturation"} |->
                            calculate_water_saturation(t, r1["porosity"], sqrt_path)]
              ELSE r1
        r3 == IF "RTAT" \in Columns(t) /\ "porosity" \in DOMAIN r2
              THEN r2 @@ [k \in {"permeability"} |-> estimate_permeability(t, r2["porosity"])]
              ELSE r2
        r4 == IF "GGCE" \in Columns(t)
              THEN r3 @@ [k \in {"net_to_gross"} |-> calculate_net_to_gross(t)]
              ELSE r3
    IN IF \E k \in DOMAIN r4 : r4[k] = TypeError THEN TypeError ELSE r4

\* the result dict, built key by key as lines 335-348 do; TypeError when a
\* method raises
petrophysical_calculations(t, sqrt_path) ==
    LET r1 == IF "NPRL" \in Columns(t) /\ "DEN" \in Columns(t)
              THEN [k \in {"porosity"} |-> calculate_porosity(t)]
              ELSE <<>>
        r2 == IF "RTAT" \in Columns(t) /\ "porosity" \in DOMAIN r1
              THEN r1 @@ [k \in {"water_saturation"} |->
                            calculate_water_saturation(t, r1["porosity"], sqrt_path)]
              ELSE r1
        r3 == IF "porosity" \in DOMAIN r2
              THEN r2 @@ [k \in {"permeability"} |-> estimate_permeability(t, r2["porosity"])]
              ELSE r2
        r4 == IF "GGCE" \in Columns(t)
              THEN r3 @@ [k \in {"net_to_gross"} |-> calculate_net_to_gross(t)]
              ELSE r3
    IN IF \E k \in DOMAIN r4 : r4[k] = TypeError THEN TypeError ELSE r4

----------------------------------------------------------------------------
(* The tables lasio.read(...).df() may give: lasio is a library, its result *)
(* is an input.  Each family exercises one part of the analysis.            *)

Column(n, x) == [i \in 1..n |-> x]

\* one value per curve, a typical sample
Typical ==
    [c \in Mnemonics |->
        CASE c = "GGCE" -> Num(60) [] c = "GR" -> Num(90) [] c = "NPRL" -> Num(10)
          [] c = "DEN" -> Num(220) [] c = "PDPE" -> Num(310) [] c = "RTAT" -> Num(200)
          [] c = "SPCG" -> Num(1)]

\* every set of curves, with no row, a row of nulls or a typical row
PresenceTables ==
    {Table(cols, 0, [c \in cols |-> <<>>]) : cols \in SUBSET Mnemonics}
    \cup {Table(cols, 1, [c \in cols |-> <<NaN>>]) : cols \in SUBSET Mnemonics}
    \cup {Table(cols, 1, [c \in cols |-> <<Typical[c]>>]) : cols \in SUBSET Mnemonics}

Floats(S) == {Num(x) : x \in S} \cup {NaN}

PEGrid ==
    {170, 180, 185, 190, 195, 279, 280, 290, 300, 310, 320, 325, 330, 335,
     455, 460, 470, 480, 485, 495, 500, 505, 510, 515, 520, 525}
PETables ==
    {Table({"PDPE"}, Len(s), [c \in {"PDPE"} |-> s]) :
        s \in SeqsUpTo(Floats(PEGrid), 2) \ {<<>>}}

GRGrid == {0, 41, 74, 75, 100, 153, 200}
GRTables ==
    {Table({g}, Len(s), [c \in {g} |-> s]) :
        g \in {"GGCE", "GR"}, s \in SeqsUpTo(Floats(GRGrid), MaxSamples) \ {<<>>}}

NPRLGrid == {-5, 0, 10, 14, 15, 30, 60}
DENGrid == {100, 220, 229, 230, 259, 265, 268, 269, 279, 280, 292, 300}
RTATGrid == {-10, 0, 1, 20, 2000}
CrossPlotTables ==
    {Table({"NPRL", "DEN", "RTAT"}, 1,
           [c \in {"NPRL", "DEN", "RTAT"} |->
               CASE c = "NPRL" -> <<n>> [] c = "DEN" -> <<d>> [] c = "RTAT" -> <<r>>]) :
        n \in Floats(NPRLGrid), d \in Floats(DENGrid), r \in Floats(RTATGrid)}

QAGrid == {0, 1, 2, 10}
QATables ==
    {Table({"SPCG"}, Len(s), [c \in {"SPCG"} |-> s]) :
        s \in SeqsUpTo(Floats(QAGrid), MaxQARows) \ {<<>>}}

\* n rows of typical samples, the first nulls of them without a density
ClusterTable(cols, n, nulls) ==
    Table(cols, n,
          [c \in cols |-> [i \in 1..n |-> IF i <= nulls /\ c = "DEN" THEN NaN ELSE Typical[c]]])

ClusterColumns ==
    { {"NPRL", "DEN"}, {"NPRL", "DEN", "SPCG"}, {"GGCE", "GR", "SPCG"},
      {"GGCE", "NPRL", "DEN", "PDPE", "RTAT"} }

\* row counts on both sides of every change of range(2, min(8, n // 5))
ClusterRows == {9, 10, 14, 15, 24, 25, 39, 40, MaxClusterRows}

ClusterTables ==
    {ClusterTable(cols, n, nulls) :
        cols \in ClusterColumns, n \in ClusterRows, nulls \in 0..1}

LasioTables ==
    PresenceTables \cup PETables \cup GRTables \cup CrossPlotTables \cup QATables
    \cup ClusterTables

----------------------------------------------------------------------------
(* KMeans of scikit-learn, as _ml_lithology_clustering uses it *)

Seed(n) == [seed |-> n]

\* mutant of random_state: the final fit is not seeded
random_state_final_unset(stage) == IF stage = "final" THEN None ELSE Seed(42)

\* lines 300 and 308: random_state=42 in the loop ("elbow") and in the final fit
random_state(stage) == Seed(42)

InertiaGrid == {1, 4}

\* what KMeans may give for nk cluster counts of the loop and the final fit
Fits(nk) == [inertias : [1..nk -> InertiaGrid], shift : 0..1]

NoFit == [inertias |-> <<>>, shift |-> 0]

\* lines 154, 283, 288: KMeans is reached
ClusteringRuns(t) ==
    /\ Len(t.columns) >= 3
    /\ Len(analysis_curves(t)) >= 2
    /\ Cardinality(ml_data(t)) >= 10

\* The fits KMeans may give on table t.  A fit with an integer random_state
\* repeats what the same fit gave before on the same data (memo, None when
\* there was none); a fit without one is free.
KMeansFits(t, memo) ==
    IF ~ClusteringRuns(t) THEN {NoFit}
    ELSE {f \in Fits(Cardinality(k_range(Cardinality(ml_data(t))))) :
            (memo # None /\ memo.table = t) =>
                /\ random_state("elbow") # None => f.inertias = memo.fit.inertias
                /\ random_state("final") # None => f.shift = memo.fit.shift}

\* None of the three methods assigns to self.df or into one of its columns:
\* every subscript assignment (178-181, 229-232, 263-266, 312, 377) is into a
\* Series built in the method, phi_corrected being a copy (376).  The table
\* after a call of the method is the table before it.
StoreAfter_percent_in_place(method, t) ==
    IF method = "petrophysical_calculations" /\ "NPRL" \in Columns(t)
    THEN [t EXCEPT !.data["NPRL"] =
            [i \in 1..NRows(t) |-> IF IsNum(t.data["NPRL"][i])
                                    THEN Num(t.data["NPRL"][i].v \div 100) ELSE NaN]]
    ELSE t

StoreAfter(method, t) == t

----------------------------------------------------------------------------
(* load_las_file and main *)

\* load_las_file (lines 35-54): the table left in self.df and the value
\* returned.  read is what lasio.read gives, a table or None when it raises.
\* The prints of lines 48-49 raise AttributeError when self.df is None.
load_las_file(has_lasio, f, read) ==
    LET table == IF has_lasio THEN read
                 ELSE IF f = NoFile THEN None
                 ELSE manual_las_parse(f.lines)
    IN [df |-> table, ok |-> table # None]

\* mutant of AfterLoad: main does not return after a failed load
AfterLoad_no_return(ok) == "assess"

\* lines 796-797: where main goes on after load_las_file
AfterLoad(ok) == IF ok THEN "assess" ELSE "returned"

Init ==
    /\ lasio \in BOOLEAN
    /\ file \in (IF lasio THEN {LasFile} ELSE Files)
    /\ pc = "start"
    /\ df = None
    /\ load_ok = "pending"
    /\ calls = <<>>
    /\ quality = None
    /\ lithology_results = None
    /\ petrophysical_results = None
    /\ all_results = None
    /\ kmeans = None
    /\ ml_runs = <<>>

LoadLasFile ==
    /\ pc = "start"
    /\ \E read \in (IF lasio THEN LasioTables \cup {None} ELSE {None}) :
         LET r == load_las_file(lasio, file, read)
         IN /\ df' = r.df
            /\ load_ok' = (IF r.ok THEN "True" ELSE "False")
            /\ pc' = AfterLoad(r.ok)
    /\ UNCHANGED <<lasio, file, calls, quality, lithology_results,
                   petrophysical_results, all_results, kmeans, ml_runs>>

\* a call of data_quality_assessment at position at of the caller, which goes
\* on at position to; self.df.index of None raises AttributeError
Assess(at, to) ==
    /\ pc = at
    /\ calls' = Append(calls, "data_quality_assessment")
    /\ IF df = None
       THEN pc' = "raised" /\ UNCHANGED <<quality, df>>
       ELSE /\ pc' = to
            /\ quality' = data_quality_assessment(df)
            /\ df' = StoreAfter("data_quality_assessment", df)
    /\ UNCHANGED <<lasio, file, load_ok, lithology_results,
                   petrophysical_results, all_results, kmeans, ml_runs>>

\* a call of lithology_identification
Identify(at, to) ==
    /\ pc = at
    /\ calls' = Append(calls, "lithology_identification")
    /\ \E fit \in KMeansFits(df, kmeans) :
         LET r == lithology_identification(df, fit)
         IN /\ IF r = KeyError
               THEN pc' = "raised" /\ UNCHANGED <<lithology_results, ml_runs>>
               ELSE /\ pc' = to
                    /\ lithology_results' = r
                    /\ ml_runs' = IF "ml_clustering" \in DOMAIN r
                                  THEN Append(ml_runs, r["ml_clustering"])
                                  ELSE ml_runs
            /\ kmeans' = IF ClusteringRuns(df) THEN [table |-> df, fit |-> fit]
                         ELSE kmeans
    /\ df' = StoreAfter("lithology_identification", df)
    /\ UNCHANGED <<lasio, file, load_ok, quality, petrophysical_results, all_results>>

\* a call of petrophysical_calculations
Calculate(at, to) ==
    /\ pc = at
    /\ calls' = Append(calls, "petrophysical_calculations")
    /\ \E sqrt_path \in BOOLEAN :
         LET r == petrophysical_calculations(df, sqrt_path)
         IN IF r = TypeError
            THEN pc' = "raised" /\ UNCHANGED petrophysical_results
            ELSE pc' = to /\ petrophysical_results' = r
    /\ df' = StoreAfter("petrophysical_calculations", df)
    /\ UNCHANGED <<lasio, file, load_ok, quality, lithology_results, all_results,
                   kmeans, ml_runs>>

\* line 800
DataQualityAssessment == Assess("assess", "identify")

\* line 803
LithologyIdentification == Identify("identify", "calculate")

\* line 806
PetrophysicalCalculations == Calculate("calculate", "report")

\* lines 809-815: the results merged, then the plots and the report, which
\* are written with matplotlib to fixed paths and may raise
CreateOutputs ==
    /\ pc = "report"
    /\ all_results' = lithology_results @@ petrophysical_results
    /\ \E written \in BOOLEAN : pc' = (IF written THEN "done" ELSE "raised")
    /\ UNCHANGED <<lasio, file, df, load_ok, calls, quality,
                   lithology_results, petrophysical_results, kmeans, ml_runs>>

Next ==
    \/ LoadLasFile
    \/ DataQualityAssessment
    \/ LithologyIdentification
    \/ PetrophysicalCalculations
    \/ CreateOutputs

Spec == Init /\ [][Next]_vars

----------------------------------------------------------------------------
(* The analyzer used as an object: after load_las_file returned True, the   *)
(* three analysis methods are called in any order, any number of times.     *)

CallRows == {10, MaxClusterRows - 20}

CallTables ==
    {Table(cols, 1, [c \in cols |-> <<Typical[c]>>]) : cols \in SUBSET Mnemonics}
    \cup {ClusterTable(cols, n, 0) : cols \in ClusterColumns, n \in CallRows}

InitCalls ==
    /\ lasio = TRUE
    /\ file = LasFile
    /\ pc = "loaded"
    /\ df \in CallTables
    /\ load_ok = "True"
    /\ calls = <<>>
    /\ quality = None
    /\ lithology_results = None
    /\ petrophysical_results = None
    /\ all_results = None
    /\ kmeans = None
    /\ ml_runs = <<>>

CallDataQualityAssessment == Len(calls) < MaxCalls /\ Assess("loaded", "loaded")

CallLithologyIdentification == Len(calls) < MaxCalls /\ Identify("loaded", "loaded")

CallPetrophysicalCalculations == Len(calls) < MaxCalls /\ Calculate("loaded", "loaded")

NextCalls ==
    \/ CallDataQualityAssessment
    \/ CallLithologyIdentification
    \/ CallPetrophysicalCalculations

SpecCalls == InitCalls /\ [][NextCalls]_vars

----------------------------------------------------------------------------
(* Claims *)

Called(step) == step \in Range(calls)

\* a method's result is absent from a result dict
Absent(results, key) == key \notin DOMAIN results \/ results[key] = None

Has(results, key) == key \in DOMAIN results /\ results[key] # None

\* C1: with any set of curves present in a loaded table, lithology_identification
\* and petrophysical_calculations return (neither raises), and every method
\* whose required curves are missing from the table has an absent result:
\* its key is not in the result dict or maps to None.
C1_AbsentCurvesGiveAbsentResults ==
    /\ Called("lithology_identification") =>
         /\ lithology_results # None
         /\ ("GGCE" \notin Columns(df) /\ "GR" \notin Columns(df))
                => Absent(lithology_results, "gamma_ray")
         /\ ("NPRL" \notin Columns(df) \/ "DEN" \notin Columns(df))
                => Absent(lithology_results, "neutron_density")
         /\ "PDPE" \notin Columns(df) => Absent(lithology_results, "photoelectric")
         /\ Cardinality(Columns(df) \cap {"GGCE", "NPRL", "DEN", "PDPE", "RTAT"}) < 2
                => Absent(lithology_results, "ml_clustering")
    /\ Called("petrophysical_calculations") =>
         /\ petrophysical_results # None
         /\ ("NPRL" \notin Columns(df) \/ "DEN" \notin Columns(df))
                => /\ Absent(petrophysical_results, "porosity")
                   /\ Absent(petrophysical_results, "water_saturation")
                   /\ Absent(petrophysical_results, "permeability")
         /\ "RTAT" \notin Columns(df) => Absent(petrophysical_results, "water_saturation")
         /\ "GGCE" \notin Columns(df) => Absent(petrophysical_results, "net_to_gross")

\* C1 witness: both methods have returned on a table that has samples and a
\* gamma-ray curve but neither a neutron nor a photoelectric curve.
C1_Witness ==
    /\ Called("petrophysical_calculations")
    /\ petrophysical_results # None
    /\ NRows(df) > 0
    /\ "GR" \in Columns(df) /\ "DEN" \in Columns(df)
    /\ "NPRL" \notin Columns(df) /\ "PDPE" \notin Columns(df)
    /\ Has(lithology_results, "gamma_ray")
    /\ DOMAIN petrophysical_results = {}

Steps == <<"data_quality_assessment", "lithology_identification", "petrophysical_calculations">>

\* C2: main calls the three analysis steps if and only if load_las_file
\* returned True, which it does exactly when self.df holds a table.  After a
\* failed load main returns with none of them called; after a successful load
\* they are called in the order quality, lithology, properties, and main does
\* not end before all three were called, whatever the methods skipped.
C2_StepsRunIffLoaded ==
    /\ pc # "start" => (load_ok = "True" <=> df # None)
    /\ load_ok = "False" => pc = "returned"
    /\ load_ok # "True" => calls = <<>>
    /\ load_ok = "True" =>
         /\ Len(calls) <= 3
         /\ calls = SubSeq(Steps, 1, Len(calls))
         /\ pc \in {"done", "raised", "returned"} => calls = Steps

\* C2 witness: the manual parser loaded a table, every lithology method and
\* every property was skipped, and main ran to its end with all three steps
\* called.
C2_Witness ==
    /\ ~lasio
    /\ pc = "done"
    /\ calls = Steps
    /\ \A k \in DOMAIN lithology_results : lithology_results[k] = None

InRange(pe, j) == pe >= pe_ranges[j].pe_min /\ pe <= pe_ranges[j].pe_max
Matching(pe) == {j \in 1..Len(pe_ranges) : InRange(pe, j)}
FirstMatch(pe) ==
    IF Matching(pe) = {} THEN "Unknown"
    ELSE pe_ranges[CHOOSE j \in Matching(pe) : \A k \in Matching(pe) : j <= k].mineral
LastMatch(pe) ==
    IF Matching(pe) = {} THEN "Unknown"
    ELSE pe_ranges[CHOOSE j \in Matching(pe) : \A k \in Matching(pe) : j >= k].mineral

\* C3 as stated: every non-null PE value gets the label of the first range,
\* in the declared order, that contains it, and Unknown when none does.
C3_FirstMatchingRangeWins ==
    (lithology_results # None /\ Has(lithology_results, "photoelectric")) =>
        LET r == lithology_results["photoelectric"]
        IN \A i \in DOMAIN r.lithology : r.lithology[i] = FirstMatch(r.pe_data[i].v)

\* C3 as amended: every non-null PE value gets the label of the last range,
\* in the declared order, that contains it, and Unknown when none does.
C3_LastMatchingRangeWins ==
    (lithology_results # None /\ Has(lithology_results, "photoelectric")) =>
        LET r == lithology_results["photoelectric"]
        IN /\ DOMAIN r.lithology = Valid(df.data["PDPE"])
           /\ \A i \in DOMAIN r.lithology :
                /\ r.pe_data[i] = df.data["PDPE"][i]
                /\ r.lithology[i] = LastMatch(r.pe_data[i].v)

\* C3 witness: a classified PE value that lies in two ranges and carries the
\* label of the later one.
C3_Witness ==
    /\ lithology_results # None /\ Has(lithology_results, "photoelectric")
    /\ LET r == lithology_results["photoelectric"]
       IN \E i \in DOMAIN r.lithology :
            /\ Cardinality(Matching(r.pe_data[i].v)) > 1
            /\ r.lithology[i] = "Clay/Shale"
            /\ FirstMatch(r.pe_data[i].v) = "Dolomite"

\* C4: in the gamma-ray result the label of a sample follows from its tertiary
\* shale volume V alone: V < 0.15 Clean Sandstone, 0.15 <= V < 0.50 Shaly
\* Sandstone, V >= 0.50 Shale; and the result holds both volume estimates for
\* every classified sample.
C4_LabelFromTertiaryVolume ==
    (lithology_results # None /\ Has(lithology_results, "gamma_ray")) =>
        LET r == lithology_results["gamma_ray"]
        IN /\ DOMAIN r.v_shale_tertiary = DOMAIN r.lithology
           /\ DOMAIN r.v_shale_older = DOMAIN r.lithology
           /\ \A i \in DOMAIN r.lithology :
                LET V == r.v_shale_tertiary[i]
                IN IsNum(V) =>
                     /\ V.v < 15 => r.lithology[i] = "Clean Sandstone"
                     /\ (V.v >= 15 /\ V.v < 50) => r.lithology[i] = "Shaly Sandstone"
                     /\ V.v >= 50 => r.lithology[i] = "Shale"

\* C4 witness: a curve with a sample of each label, the Shaly Sandstone one
\* with V exactly 0.15.
C4_Witness ==
    /\ lithology_results # None /\ Has(lithology_results, "gamma_ray")
    /\ LET r == lithology_results["gamma_ray"]
       IN /\ \E i \in DOMAIN r.lithology :
                /\ r.v_shale_tertiary[i] = Num(15)
                /\ r.lithology[i] = "Shaly Sandstone"
          /\ \E i \in DOMAIN r.lithology : r.lithology[i] = "Clean Sandstone"
          /\ \E i \in DOMAIN r.lithology : r.lithology[i] = "Shale"

\* the matrix points at the least distance from a sample
Nearest(nprl, rhob) ==
    {m \in Range(matrices) :
        \A o \in Range(matrices) : Dist2(nprl, rhob, m) <= Dist2(nprl, rhob, o)}

\* C5: in the neutron-density result every sample with both curves non-null,
\* density < 2.3 and neutron fraction < 0.15 is Gas Sand, and every other
\* such sample has the label of a matrix point nearest to it.
C5_GasOverrideElseNearest ==
    (lithology_results # None /\ Has(lithology_results, "neutron_density")) =>
        LET r == lithology_results["neutron_density"]
        IN /\ DOMAIN r.lithology = Valid(df.data["NPRL"]) \cap Valid(df.data["DEN"])
           /\ \A i \in DOMAIN r.lithology :
                LET nprl == df.data["NPRL"][i].v
                    rhob == df.data["DEN"][i].v
                IN IF rhob < 230 /\ nprl < 15
                   THEN r.lithology[i] = "Gas Sand"
                   ELSE r.lithology[i] \in {m.name : m \in Nearest(nprl, rhob)}

\* C5 witness: a Gas Sand sample, of density 2.2 and neutron fraction 0.10.
C5_Witness ==
    /\ lithology_results # None /\ Has(lithology_results, "neutron_density")
    /\ LET r == lithology_results["neutron_density"]
       IN \E i \in DOMAIN r.lithology :
            /\ df.data["DEN"][i] = Num(220) /\ df.data["NPRL"][i] = Num(10)
            /\ r.lithology[i] = "Gas Sand"

WithinLimits(x) == IsNum(x) /\ x.v >= 0 /\ 2 * x.v <= PhiScale

\* C6: for every sample with a density and a neutron value, the density,
\* neutron, combined and corrected porosity all lie in [0, 0.5].
C6_PorosityWithinLimits ==
    (petrophysical_results # None /\ Has(petrophysical_results, "porosity")) =>
        LET r == petrophysical_results["porosity"]
        IN \A i \in 1..NRows(df) :
             (IsNum(df.data["DEN"][i]) /\ IsNum(df.data["NPRL"][i])) =>
                /\ WithinLimits(r.phi_density[i])
                /\ WithinLimits(r.phi_neutron[i])
                /\ WithinLimits(r.phi_combined[i])
                /\ WithinLimits(r.phi_corrected[i])

\* C6 witness: a sample of density 1.0 and neutron -5 percent, whose raw
\* density porosity is 1 and raw neutron porosity negative.
C6_Witness ==
    /\ petrophysical_results # None /\ Has(petrophysical_results, "porosity")
    /\ LET r == petrophysical_results["porosity"]
       IN \E i \in 1..NRows(df) :
            /\ df.data["DEN"][i] = Num(100) /\ df.data["NPRL"][i] = Num(-5)
            /\ 2 * r.phi_density[i].v = PhiScale
            /\ r.phi_neutron[i] = Num(0)

\* C7: wherever the water saturation of a sample is a number, it lies in
\* [0, 1] and the hydrocarbon saturation is the number that adds up to 1 with
\* it; the two are null together; and they are numbers for every porosity in
\* [0, 0.5] with every resistivity >= 0.
C7_SaturationsSumToOne ==
    (petrophysical_results # None /\ Has(petrophysical_results, "water_saturation")) =>
        LET r == petrophysical_results["water_saturation"]
            phi == petrophysical_results["porosity"].phi_corrected
            rt == df.data["RTAT"]
        IN \A i \in 1..NRows(df) :
             /\ IsNaN(r.sw[i]) <=> IsNaN(r.sh[i])
             /\ ~IsNaN(r.sw[i]) =>
                  /\ IsNum(r.sw[i]) /\ IsNum(r.sh[i])
                  /\ r.sw[i].v >= 0 /\ r.sw[i].v <= SatScale
                  /\ r.sw[i].v + r.sh[i].v = SatScale
             /\ (IsNum(phi[i]) /\ IsNum(rt[i]) /\ rt[i].v >= 0) => IsNum(r.sw[i])

\* C7 witness: a sample whose saturation lies strictly between 0 and 1, with
\* a hydrocarbon saturation that is not 0.
C7_Witness ==
    /\ petrophysical_results # None /\ Has(petrophysical_results, "water_saturation")
    /\ LET r == petrophysical_results["water_saturation"]
       IN \E i \in 1..NRows(df) :
            /\ IsNum(r.sw[i]) /\ r.sw[i].v > 0 /\ r.sw[i].v < SatScale
            /\ r.sh[i].v = SatScale - r.sw[i].v

\* C8: the porosity that enters a / phi**m and the powers of the
\* permeability formulas is never exactly 0.
C8_PorosityNeverZero ==
    (petrophysical_results # None /\ Has(petrophysical_results, "permeability")) =>
        \A i \in 1..NRows(df) :
            petrophysical_results["porosity"].phi_corrected[i] # Num(0)

Below(t) == {i \in 1..NRows(t) : IsNum(t.data["GGCE"][i]) /\ t.data["GGCE"][i].v < gr_cutoff}

\* C9: the net-to-gross ratio is 1 when every sample of the gamma-ray curve is
\* below 75, 0 when none is, strictly between 0 and 1 when some but not all
\* are, and 0 with a gross thickness of 0 when the table has no samples.
C9_NetToGrossRatio ==
    (petrophysical_results # None /\ Has(petrophysical_results, "net_to_gross")) =>
        LET r == petrophysical_results["net_to_gross"]
            n == NRows(df)
            below == Cardinality(Below(df))
        IN /\ r.ntg_ratio.den > 0
           /\ (n > 0 /\ below = n) => r.ntg_ratio.num = r.ntg_ratio.den
           /\ (n > 0 /\ below = 0) => r.ntg_ratio.num = 0
           /\ (below > 0 /\ below < n) =>
                (r.ntg_ratio.num > 0 /\ r.ntg_ratio.num < r.ntg_ratio.den)
           /\ n = 0 => (r.ntg_ratio.num = 0 /\ r.gross_thickness = 0)

\* C9 witness: a curve with a sample below the cutoff and a sample at it.
C9_Witness ==
    /\ petrophysical_results # None /\ Has(petrophysical_results, "net_to_gross")
    /\ Below(df) # {}
    /\ \E i \in 1..NRows(df) : df.data["GGCE"][i] = Num(gr_cutoff)
    /\ petrophysical_results["net_to_gross"].ntg_ratio.num > 0
    /\ petrophysical_results["net_to_gross"].ntg_ratio.num
         < petrophysical_results["net_to_gross"].ntg_ratio.den

\* C10: for a curve with fewer than 4 non-null values the outlier
\* detection is skipped: no quartile is computed and no count is reported.
C10_OutlierDetectionSkipped ==
    quality # None =>
        \A c \in Columns(df) :
            quality.valid_count[c] < 4 =>
                (c \notin DOMAIN quality.quartiles /\ c \notin Range(quality.printed))

Candidates(t) == Columns(t) \cap {"GGCE", "NPRL", "DEN", "PDPE", "RTAT"}
JointRows(t) == {i \in 1..NRows(t) : \A c \in Candidates(t) : IsNum(t.data[c][i])}

\* C11: lithology_identification yields a clustering result exactly when
\* the table holds at least two of the candidate curves and at least 10 rows
\* have every candidate curve present non-null; a table of two candidate
\* curves and no other column is clustered.
C11_ClusteredIffTwoCurvesTenRows ==
    lithology_results # None =>
        (Has(lithology_results, "ml_clustering")
            <=> (Cardinality(Candidates(df)) >= 2 /\ Cardinality(JointRows(df)) >= 10))

\* C12: for n >= 10 valid joint samples the cluster counts evaluated are
\* exactly the k with 2 <= k <= min(8, n/5), and the cluster count used for
\* the labels satisfies 2 <= k <= min(8, n/5), the default 3 included.
C12_ClusterCountWithinBounds ==
    (lithology_results # None /\ Has(lithology_results, "ml_clustering")) =>
        LET r == lithology_results["ml_clustering"]
            n == Cardinality(r.samples)
        IN /\ r.k_range = {k \in 2..8 : 5 * k <= n}
           /\ r.optimal_k >= 2 /\ r.optimal_k <= 8 /\ 5 * r.optimal_k <= n

\* the cluster counts of r, evaluated with both neighbours, at which the
\* second difference of the inertia curve is greatest
Elbows(r) ==
    LET I(k) == r.inertias[k - 1]
        inner == {k \in r.k_range : k - 1 \in r.k_range /\ k + 1 \in r.k_range}
        curvature(k) == I(k - 1) - 2 * I(k) + I(k + 1)
    IN {k \in inner : \A o \in inner : curvature(o) <= curvature(k)}

\* C13: when at least 3 cluster counts were evaluated the selected k is the
\* one at which I(k-1) - 2 I(k) + I(k+1) is greatest; when fewer were, k = 3.
C13_SelectedKIsElbow ==
    (lithology_results # None /\ Has(lithology_results, "ml_clustering")) =>
        LET r == lithology_results["ml_clustering"]
        IN IF Cardinality(r.k_range) >= 3
           THEN r.optimal_k \in Elbows(r)
           ELSE r.optimal_k = 3

\* C14: two calls of the clustering method on the same table give the same
\* selected k and the same Facies label for every sample.
C14_ClusteringRepeats ==
    \A i, j \in DOMAIN ml_runs :
        /\ ml_runs[i] = None <=> ml_runs[j] = None
        /\ ml_runs[i] # None =>
             /\ ml_runs[i].optimal_k = ml_runs[j].optimal_k
             /\ ml_runs[i].lithology = ml_runs[j].lithology

\* C14 witness: the method was called twice on a table on which k was
\* selected from the inertia curve, and gave more than one Facies.
C14_Witness ==
    /\ Len(ml_runs) >= 2
    /\ ml_runs[1] # None /\ ml_runs[2] # None
    /\ Len(ml_runs[2].inertias) > 2
    /\ \E a, b \in ml_runs[2].samples : ml_runs[2].lithology[a] # ml_runs[2].lithology[b]

C16_DependencyChain ==
    petrophysical_results # None =>
        LET p == petrophysical_results
        IN /\ "water_saturation" \in DOMAIN p => "porosity" \in DOMAIN p
           /\ "permeability" \in DOMAIN p <=> "porosity" \in DOMAIN p
           /\ "porosity" \in DOMAIN p <=> {"NPRL", "DEN"} \subseteq Columns(df)
           /\ "net_to_gross" \in DOMAIN p <=> "GGCE" \in Columns(df)
           /\ Has(p, "water_saturation") =>
                \A i \in 1..NRows(df) :
                    LET phi == p["porosity"].phi_corrected[i]
                        F == p["water_saturation"].formation_factor[i]
                    IN /\ IsNaN(F) <=> IsNaN(phi)
                       /\ F = Inf <=> phi = Num(0)
           /\ Has(p, "net_to_gross") =>
                /\ p["net_to_gross"].gross_thickness = 5 * NRows(df)
                /\ p["net_to_gross"].net_thickness = 5 * Cardinality(Below(df))

\* C16 witness: a table with samples, a porosity and a permeability but no
\* resistivity, hence no water saturation, and a net-to-gross.
C16_Witness ==
    /\ petrophysical_results # None
    /\ NRows(df) > 0
    /\ Has(petrophysical_results, "porosity")
    /\ Has(petrophysical_results, "permeability")
    /\ "water_saturation" \notin DOMAIN petrophysical_results
    /\ Has(petrophysical_results, "net_to_gross")

\* C17: for every sample the gas flag is set exactly when the clipped
\* neutron porosity is below the clipped density porosity minus 0.04; the
\* corrected porosity is the density porosity where the flag is set and the
\* mean of the two porosities elsewhere.
C17_GasFlagAndCorrection ==
    (petrophysical_results # None /\ Has(petrophysical_results, "porosity")) =>
        LET r == petrophysical_results["porosity"]
        IN \A i \in 1..NRows(df) :
             LET d == r.phi_density[i]
                 n == r.phi_neutron[i]
             IN /\ r.gas_flag[i] <=>
                     (IsNum(d) /\ IsNum(n) /\ 100 * n.v < 100 * d.v - 4 * PhiScale)
                /\ r.gas_flag[i] => r.phi_corrected[i] = d
                /\ (~r.gas_flag[i] /\ IsNum(d) /\ IsNum(n)) =>
                     (IsNum(r.phi_corrected[i]) /\ 2 * r.phi_corrected[i].v = d.v + n.v)
                /\ (IsNaN(d) \/ IsNaN(n)) => IsNaN(r.phi_corrected[i])

\* C17 witness: a flagged sample with a neutron porosity above 0, and so a
\* corrected porosity above the mean.
C17_Witness ==
    /\ petrophysical_results # None /\ Has(petrophysical_results, "porosity")
    /\ LET r == petrophysical_results["porosity"]
       IN \E i \in 1..NRows(df) :
            /\ r.gas_flag[i]
            /\ r.phi_neutron[i].v > 0
            /\ r.phi_corrected[i] = r.phi_density[i]
            /\ r.phi_corrected[i] # r.phi_combined[i]

\* C18: on every table on which the gamma-ray lithology method gives a
\* result (GGCE present, or GR present without GGCE), the result of
\* petrophysical_calculations has a net-to-gross.
C18_NetToGrossWithAnyGammaRay ==
    (lithology_results # None /\ petrophysical_results # None
        /\ Has(lithology_results, "gamma_ray")) =>
            Has(petrophysical_results, "net_to_gross")

\* C19: in the gamma-ray result every non-null sample of the curve has one of
\* the labels Clean Sandstone, Shaly Sandstone, Shale, also when the 5th and
\* the 95th percentile of the curve are equal.
C19_EverySampleLabelled ==
    (lithology_results # None /\ Has(lithology_results, "gamma_ray")) =>
        LET r == lithology_results["gamma_ray"]
        IN /\ DOMAIN r.lithology = Valid(df.data[gr_col(df)])
           /\ \A i \in DOMAIN r.lithology :
                r.lithology[i] \in {"Clean Sandstone", "Shaly Sandstone", "Shale"}

Nulls(t) == {i \in 1..NRows(t) : IsNaN(t.data["GGCE"][i])}

\* C20: a null gamma-ray sample counts in the gross thickness and not in the
\* net thickness: net <= gross, the ratio is the number of non-null samples
\* below 75 over the number of all samples, and with a null sample the ratio
\* is below 1.
C20_NullSamplesAreGrossOnly ==
    (petrophysical_results # None /\ Has(petrophysical_results, "net_to_gross")) =>
        LET r == petrophysical_results["net_to_gross"]
        IN /\ r.net_thickness <= r.gross_thickness
           /\ r.gross_thickness = 5 * NRows(df)
           /\ \A i \in Nulls(df) : ~r.net_flag[i]
           /\ NRows(df) > 0 =>
                r.ntg_ratio.num * NRows(df) = Cardinality(Below(df)) * r.ntg_ratio.den
           /\ Nulls(df) # {} => r.ntg_ratio.num < r.ntg_ratio.den

\* C20 witness: a curve with a null sample whose non-null samples are all
\* below the cutoff.
C20_Witness ==
    /\ petrophysical_results # None /\ Has(petrophysical_results, "net_to_gross")
    /\ Nulls(df) # {} /\ Below(df) # {}
    /\ Nulls(df) \cup Below(df) = 1..NRows(df)
    /\ petrophysical_results["net_to_gross"].ntg_ratio.num > 0
    /\ petrophysical_results["net_to_gross"].ntg_ratio.num
         < petrophysical_results["net_to_gross"].ntg_ratio.den

====
